---------------------------- MODULE Spec2Model ----------------------------
(***************************************************************************)
(* Model of the document question-answering application:                   *)
(*   src/config.py              configuration values                       *)
(*   src/Document_processor.py  DocumentProcessor (ingestion)              *)
(*   src/rag_engine.py          RAGEngine (index, retrieval chain, memory) *)
(*   src/app.py                 the Streamlit session (buttons, chat input)*)
(*                                                                         *)
(* Texts are TLA+ strings; Len, SubSeq and \o act on them character by     *)
(* character, so trimming, thresholds, previews and splitting are computed *)
(* on real lengths.  A raised Python exception is the value Raised.        *)
(***************************************************************************)
EXTENDS Integers, Sequences, FiniteSets, TLC

VARIABLES
    documents,      \* ./documents on disk: category -> [exists, files]
    chunked_docs,   \* what the last process_documents call returned
    loaded,         \* the last single load_pdf call: its file, category and result
    vector_store,   \* RAGEngine.vector_store: None or a store (sequence of chunks)
    qa_chain,       \* RAGEngine.qa_chain: None or [retriever |-> [store, filter]]
    persisted,      \* the index saved at VECTOR_STORE_PATH: None or a store
    memory,         \* RAGEngine.memory.chat_memory.messages
    messages,       \* st.session_state.messages
    response,       \* outcome of the last handler (what the user is shown)
    turn,           \* number of questions asked in this session
    cleared         \* turns that were in the transcript or memory at a Clear Chat

vars == <<documents, chunked_docs, loaded, vector_store, qa_chain, persisted,
          memory, messages, response, turn, cleared>>

-----------------------------------------------------------------------------
(* Bounds of the model *)

\* files placed under ./documents in one ingestion-only run
MaxFiles == 2
\* pages of a PDF handed to load_pdf on its own
MaxPages == 2
\* questions asked in one session
MaxTurns == 2

-----------------------------------------------------------------------------
(* src/config.py *)

DOC_CATEGORIES == <<"HR", "Finance", "Technical">>
CHUNK_SIZE == 1000
CHUNK_OVERLAP == 200

(* literals of the code *)
ScanThreshold == 100
PreviewLen == 200
RetrieverK == 5
DocumentsBase == "./documents"

\* Python's None, and the two outcomes of a call: a value, or an exception
None == [none |-> TRUE]
Raised == [raised |-> TRUE]
Ok(v) == [raised |-> FALSE, value |-> v]

Categories == {DOC_CATEGORIES[i] : i \in 1..Len(DOC_CATEGORIES)}

-----------------------------------------------------------------------------
(* String helpers: Python's str methods, computed on the characters *)

RECURSIVE Rep(_, _)
Rep(s, n) ==
    IF n = 0 THEN ""
    ELSE LET half == Rep(s, n \div 2)
         IN  half \o half \o (IF n % 2 = 1 THEN s ELSE "")

Char(s, i) == SubSeq(s, i, i)

IsSpace(c) == c \in {" ", "\n", "\t", "\r"}

RECURSIVE LStrip(_)
LStrip(s) ==
    IF Len(s) > 0 /\ IsSpace(Char(s, 1)) THEN LStrip(SubSeq(s, 2, Len(s))) ELSE s

RECURSIVE RStrip(_)
RStrip(s) ==
    IF Len(s) > 0 /\ IsSpace(Char(s, Len(s)))
    THEN RStrip(SubSeq(s, 1, Len(s) - 1)) ELSE s

\* str.strip()
Strip(s) == RStrip(LStrip(s))

UpperCase == "ABCDEFGHIJKLMNOPQRSTUVWXYZ"
LowerCase == "abcdefghijklmnopqrstuvwxyz"

LowerChar(c) ==
    IF \E i \in 1..26 : Char(UpperCase, i) = c
    THEN Char(LowerCase, CHOOSE i \in 1..26 : Char(UpperCase, i) = c)
    ELSE c

\* str.lower()
RECURSIVE Lower(_)
Lower(s) ==
    IF s = "" THEN "" ELSE LowerChar(Char(s, 1)) \o Lower(SubSeq(s, 2, Len(s)))

\* str.endswith(suffix)
EndsWith(s, suffix) ==
    /\ Len(s) >= Len(suffix)
    /\ SubSeq(s, Len(s) - Len(suffix) + 1, Len(s)) = suffix

\* os.path.join(a, b)
PathJoin(a, b) == a \o "/" \o b

\* os.path.basename(p): what follows the last "/"
RECURSIVE Basename(_)
Basename(p) ==
    IF \E i \in 1..Len(p) : Char(p, i) = "/"
    THEN Basename(SubSeq(p, (CHOOSE i \in 1..Len(p) : Char(p, i) = "/") + 1, Len(p)))
    ELSE p

\* str(i) for the page numbers that occur
Str(i) == Char("123456789", i)

\* dict.get(key, default)
Get(d, key, default) == IF key \in DOMAIN d THEN d[key] ELSE default

RECURSIVE Concat(_)
Concat(ss) == IF ss = <<>> THEN "" ELSE Head(ss) \o Concat(Tail(ss))

-----------------------------------------------------------------------------
(* src/Document_processor.py: DocumentProcessor                             *)
(*                                                                         *)
(* A file on disk is [name, layer, parsed, scan, fault]:                    *)
(*   layer   the text fitz extracts, one string per page                   *)
(*   parsed  the text PyPDFLoader extracts, one string per page            *)
(*   scan    the text pytesseract reads, one string per page image         *)
(*   fault   which library call raises on this file: "none", "open"        *)
(*           (fitz.open), "ocr" (convert_from_path / image_to_string),     *)
(*           "parse" (PyPDFLoader.load)                                    *)

\* is_scanned_pdf with the comparison off by one
is_scanned_pdf_le(f) ==
    IF f.fault = "open" THEN Raised
    ELSE LET text_content == Concat(f.layer)
         IN  Ok(Len(Strip(text_content)) <= ScanThreshold)

\* is_scanned_pdf: Ok(TRUE), Ok(FALSE), or Raised when fitz cannot open the file
is_scanned_pdf(f) ==
    IF f.fault = "open" THEN Raised
    ELSE LET text_content == Concat(f.layer)
         IN  Ok(Len(Strip(text_content)) < ScanThreshold)

RECURSIVE OcrPages(_, _)
OcrPages(images, i) ==
    IF i > Len(images) THEN ""
    ELSE "\n--- Page " \o Str(i) \o " ---\n" \o images[i] \o OcrPages(images, i + 1)

\* extract_text_with_ocr: the pages' OCR text behind page markers, or Raised
extract_text_with_ocr(f) ==
    IF f.fault = "ocr" THEN Raised ELSE Ok(OcrPages(f.scan, 1))

\* PyPDFLoader(pdf_path).load(): one Document per page, or Raised
PyPDFLoad(f, pdf_path) ==
    IF f.fault = "parse" THEN Raised
    ELSE Ok([i \in 1..Len(f.parsed) |->
               [page_content |-> f.parsed[i],
                metadata |-> [source |-> pdf_path, page |-> i - 1]]])

\* The body of load_pdf's try block: Ok(documents), or Raised
LoadPdfTry(f, pdf_path, category) ==
    LET scanned == is_scanned_pdf(f)
    IN  IF scanned.raised THEN Raised
        ELSE IF scanned.value
        THEN LET text == extract_text_with_ocr(f)
             IN  IF text.raised THEN Raised
                 ELSE Ok(<< [page_content |-> text.value,
                             metadata |-> [source |-> pdf_path,
                                           category |-> category,
                                           filename |-> Basename(pdf_path),
                                           extraction_method |-> "OCR"]] >>)
        ELSE LET docs == PyPDFLoad(f, pdf_path)
             IN  IF docs.raised THEN Raised
                 ELSE Ok([i \in 1..Len(docs.value) |->
                            [page_content |-> docs.value[i].page_content,
                             metadata |-> [source |-> docs.value[i].metadata.source,
                                           page |-> docs.value[i].metadata.page,
                                           category |-> category,
                                           filename |-> Basename(pdf_path),
                                           extraction_method |-> "text"]]])

\* A load_pdf without the except clause: the exception escapes
load_pdf_uncaught(f, pdf_path, category) == LoadPdfTry(f, pdf_path, category)

\* load_pdf: try ... except Exception: return []
load_pdf(f, pdf_path, category) ==
    LET r == LoadPdfTry(f, pdf_path, category)
    IN  IF r.raised THEN Ok(<<>>) ELSE r

\* [f for f in os.listdir(category_path) if f.lower().endswith('.pdf')]
pdf_files(files) == SelectSeq(files, LAMBDA f : EndsWith(Lower(f.name), ".pdf"))

\* The inner loop of process_documents over one folder: all_docs.extend(docs)
RECURSIVE LoadFolder(_, _, _)
LoadFolder(files, category_path, category) ==
    IF files = <<>> THEN Ok(<<>>)
    ELSE LET docs == load_pdf(Head(files), PathJoin(category_path, Head(files).name),
                              category)
         IN  IF docs.raised THEN Raised
             ELSE LET rest == LoadFolder(Tail(files), category_path, category)
                  IN  IF rest.raised THEN Raised ELSE Ok(docs.value \o rest.value)

\* The outer loop of process_documents, from category number i on
RECURSIVE LoadCategories(_, _)
LoadCategories(tree, i) ==
    IF i > Len(DOC_CATEGORIES) THEN Ok(<<>>)
    ELSE LET category == DOC_CATEGORIES[i]
             category_path == PathJoin(DocumentsBase, category)
             here == IF ~tree[category].exists THEN Ok(<<>>)
                     ELSE LoadFolder(pdf_files(tree[category].files),
                                     category_path, category)
         IN  IF here.raised THEN Raised
             ELSE LET rest == LoadCategories(tree, i + 1)
                  IN  IF rest.raised THEN Raised ELSE Ok(here.value \o rest.value)

\* os.makedirs(category_path) for every absent category folder
MakeDirs(tree) ==
    [c \in Categories |->
        IF tree[c].exists THEN tree[c] ELSE [exists |-> TRUE, files |-> <<>>]]

\* RecursiveCharacterTextSplitter.split_text on a text without separators:
\* windows of CHUNK_SIZE characters that start CHUNK_SIZE - CHUNK_OVERLAP
\* apart, each trimmed, empty ones dropped
RECURSIVE Windows(_)
Windows(s) ==
    IF Len(s) <= CHUNK_SIZE THEN <<s>>
    ELSE <<SubSeq(s, 1, CHUNK_SIZE)>>
         \o Windows(SubSeq(s, CHUNK_SIZE - CHUNK_OVERLAP + 1, Len(s)))

split_text(text) ==
    LET s == Strip(text)
    IN  IF s = "" THEN <<>> ELSE Windows(s)

\* text_splitter.split_documents: every piece keeps its document's metadata
RECURSIVE split_documents(_)
split_documents(docs) ==
    IF docs = <<>> THEN <<>>
    ELSE LET pieces == split_text(Head(docs).page_content)
         IN  [i \in 1..Len(pieces) |->
                [page_content |-> pieces[i], metadata |-> Head(docs).metadata]]
             \o split_documents(Tail(docs))

\* process_documents: Ok(chunks), or Raised if an exception escapes load_pdf
process_documents(tree) ==
    LET all_docs == LoadCategories(tree, 1)
    IN  IF all_docs.raised THEN Raised
        ELSE IF all_docs.value = <<>> THEN Ok(<<>>)
        ELSE Ok(split_documents(all_docs.value))

-----------------------------------------------------------------------------
(* src/rag_engine.py: RAGEngine                                             *)
(*                                                                         *)
(* A store (FAISS index) is [docs |-> the chunks it holds].  A retriever   *)
(* is [store, filter]: the store object it was made from by as_retriever   *)
(* and its search_kwargs filter, None or [category |-> c].                 *)

\* category_filter = None, in a position that otherwise holds a string
NoCategory == "<None>"

NOT_INDEXED ==
    "No documents indexed yet. Please add some documents and click 'Re-index'."

\* The text of the t-th question of a session, and of the model's answer to it
Question(t) == "question " \o Str(t)
Answer(t) == "answer " \o Str(t)

\* FAISS.from_documents(documents, self.embeddings): a new store, or Raised
\* when the embedding call fails (or there is nothing to embed)
FAISS_from_documents(docs, embed_ok) ==
    IF ~embed_ok \/ docs = <<>> THEN Raised ELSE Ok([docs |-> docs])

\* vector_store.as_retriever(search_type="mmr", search_kwargs={...})
as_retriever(store, filter) == [store |-> store, filter |-> filter]

\* _setup_qa_chain: a new chain whose retriever has no filter
setup_qa_chain(store) == [retriever |-> as_retriever(store, None)]

\* build_index that merges the new chunks into the index it already holds
build_index_merge(eng, docs, embed_ok, save_ok) ==
    LET made == FAISS_from_documents(docs, embed_ok)
        merged == IF eng.vector_store = None THEN made.value
                  ELSE [docs |-> eng.vector_store.docs \o made.value.docs]
    IN  IF made.raised THEN eng @@ [raised |-> TRUE]
        ELSE IF ~save_ok
        THEN [eng EXCEPT !.vector_store = merged] @@ [raised |-> TRUE]
        ELSE [vector_store |-> merged, persisted |-> merged,
              qa_chain |-> setup_qa_chain(merged), raised |-> FALSE]

\* build_index(documents) on engine state eng = [vector_store, qa_chain,
\* persisted]: the new state, and whether the call raised.  embed_ok and
\* save_ok say whether from_documents and save_local succeed.
build_index(eng, docs, embed_ok, save_ok) ==
    LET made == FAISS_from_documents(docs, embed_ok)
    IN  IF made.raised THEN eng @@ [raised |-> TRUE]
        ELSE IF ~save_ok
        THEN [eng EXCEPT !.vector_store = made.value] @@ [raised |-> TRUE]
        ELSE [vector_store |-> made.value, persisted |-> made.value,
              qa_chain |-> setup_qa_chain(made.value), raised |-> FALSE]

\* load_index() on engine state eng: the new state, the return value, and
\* whether FAISS.load_local raised
load_index(eng, load_ok) ==
    IF eng.persisted = None
    THEN eng @@ [returned |-> FALSE, raised |-> FALSE]
    ELSE IF ~load_ok THEN eng @@ [returned |-> FALSE, raised |-> TRUE]
    ELSE [vector_store |-> eng.persisted, persisted |-> eng.persisted,
          qa_chain |-> setup_qa_chain(eng.persisted),
          returned |-> TRUE, raised |-> FALSE]

\* The metadata-equality filter of the vector store search
Matches(doc, filter) ==
    filter = None \/ Get(doc.metadata, "category", NoCategory) = filter.category

RECURSIVE Injective(_)
Injective(seq) ==
    \/ seq = <<>>
    \/ /\ \A i \in 2..Len(seq) : seq[i] # Head(seq)
       /\ Injective(Tail(seq))

RECURSIVE SeqsUpTo(_, _)
SeqsUpTo(S, n) ==
    IF n = 0 THEN {<<>>}
    ELSE LET shorter == SeqsUpTo(S, n - 1)
         IN  shorter \cup {Append(q, x) : q \in shorter, x \in S}

Min(a, b) == IF a < b THEN a ELSE b

\* What the retriever may return: at most k distinct chunks of its store
\* that pass its filter, in any order (the ranking depends on embeddings)
Retrievals(retriever) ==
    LET docs == retriever.store.docs
        hits == {i \in 1..Len(docs) : Matches(docs[i], retriever.filter)}
    IN  {[j \in 1..Len(q) |-> docs[q[j]]] :
            q \in {q \in SeqsUpTo(hits, Min(RetrieverK, Cardinality(hits))) :
                      Injective(q)}}

\* Citations without the seen_files check
RECURSIVE Citations_nodedup(_, _)
Citations_nodedup(source_documents, seen_files) ==
    IF source_documents = <<>> THEN <<>>
    ELSE LET doc == Head(source_documents)
             filename == Get(doc.metadata, "filename", "Unknown")
         IN  << [filename |-> filename,
                 category |-> Get(doc.metadata, "category", "Unknown"),
                 content_preview |->
                     SubSeq(doc.page_content, 1,
                            Min(PreviewLen, Len(doc.page_content))) \o "..."] >>
             \o Citations_nodedup(Tail(source_documents), seen_files \cup {filename})

\* The loop of query over result["source_documents"]
RECURSIVE Citations(_, _)
Citations(source_documents, seen_files) ==
    IF source_documents = <<>> THEN <<>>
    ELSE LET doc == Head(source_documents)
             filename == Get(doc.metadata, "filename", "Unknown")
         IN  IF filename \in seen_files
             THEN Citations(Tail(source_documents), seen_files)
             ELSE << [filename |-> filename,
                      category |-> Get(doc.metadata, "category", "Unknown"),
                      content_preview |->
                          SubSeq(doc.page_content, 1,
                                 Min(PreviewLen, Len(doc.page_content))) \o "..."] >>
                  \o Citations(Tail(source_documents), seen_files \cup {filename})

\* if category_filter and category_filter != "All"
FilterRequested(category_filter) ==
    category_filter # NoCategory /\ category_filter # "" /\ category_filter # "All"

\* A query that never installs the filtered retriever
RetrieverInEffect_stale(eng, category_filter) == eng.qa_chain.retriever

\* The retriever the chain uses in a query with this category_filter
RetrieverInEffect(eng, category_filter) ==
    IF FilterRequested(category_filter)
    THEN as_retriever(eng.vector_store, [category |-> category_filter])
    ELSE eng.qa_chain.retriever

\* What qa_chain.invoke can do: raise (the retrieval or the model call
\* fails), or answer from one of the possible retrievals
QueryFates(eng, category_filter) ==
    IF eng.qa_chain = None THEN {[raised |-> FALSE, source_documents |-> <<>>]}
    ELSE {Raised} \cup
         {[raised |-> FALSE, source_documents |-> d] :
             d \in Retrievals(RetrieverInEffect(eng, category_filter))}

\* query whose guard tests self.vector_store instead of self.qa_chain
query_storeguard(eng, mem, t, category_filter, fate) ==
    IF eng.vector_store = None
    THEN [qa_chain |-> eng.qa_chain, memory |-> mem, raised |-> FALSE,
          invoked |-> FALSE, answer |-> NOT_INDEXED, sources |-> <<>>]
    ELSE IF eng.qa_chain = None
    THEN [qa_chain |-> eng.qa_chain, memory |-> mem, raised |-> TRUE,
          invoked |-> FALSE]
    ELSE LET retriever == RetrieverInEffect(eng, category_filter)
             chain == [eng.qa_chain EXCEPT !.retriever = retriever]
         IN  IF fate.raised
             THEN [qa_chain |-> chain, memory |-> mem, raised |-> TRUE,
                   invoked |-> TRUE, retriever |-> retriever]
             ELSE [qa_chain |-> chain,
                   memory |-> mem \o << [type |-> "human", content |-> Question(t)],
                                        [type |-> "ai", content |-> Answer(t)] >>,
                   raised |-> FALSE, invoked |-> TRUE, retriever |-> retriever,
                   chat_history |-> mem,
                   source_documents |-> fate.source_documents,
                   answer |-> Answer(t),
                   sources |-> Citations(fate.source_documents, {})]

\* query(question, category_filter) for the t-th question, on engine state
\* eng and conversational memory mem, with fate one of QueryFates.
\* Returns the new qa_chain and memory, whether the call raised, whether
\* the chain was invoked, and the returned dict (answer, sources); for an
\* invoked chain also the retriever used, the chat history given to the
\* prompt and the retrieved documents.
query(eng, mem, t, category_filter, fate) ==
    IF eng.qa_chain = None
    THEN [qa_chain |-> eng.qa_chain, memory |-> mem, raised |-> FALSE,
          invoked |-> FALSE, answer |-> NOT_INDEXED, sources |-> <<>>]
    ELSE LET retriever == RetrieverInEffect(eng, category_filter)
             chain == [eng.qa_chain EXCEPT !.retriever = retriever]
         IN  IF fate.raised
             THEN [qa_chain |-> chain, memory |-> mem, raised |-> TRUE,
                   invoked |-> TRUE, retriever |-> retriever]
             ELSE [qa_chain |-> chain,
                   memory |-> mem \o << [type |-> "human", content |-> Question(t)],
                                        [type |-> "ai", content |-> Answer(t)] >>,
                   raised |-> FALSE, invoked |-> TRUE, retriever |-> retriever,
                   chat_history |-> mem,
                   source_documents |-> fate.source_documents,
                   answer |-> Answer(t),
                   sources |-> Citations(fate.source_documents, {})]

\* clear_memory that forgets nothing
clear_memory_keep(mem) == mem

\* clear_memory: self.memory.clear()
clear_memory(mem) == <<>>

-----------------------------------------------------------------------------
(* The files and folder trees the model draws its inputs from *)

Pdf(name, pages, fault) ==
    [name |-> name, layer |-> pages, parsed |-> pages,
     scan |-> [i \in 1..Len(pages) |-> "scanned text"], fault |-> fault]

Scan(name, n, fault) ==
    [name |-> name, layer |-> [i \in 1..n |-> ""], parsed |-> [i \in 1..n |-> ""],
     scan |-> [i \in 1..n |-> "invoice total 42"], fault |-> fault]

Policy == Pdf("policy.pdf", <<Rep("x", 120), Rep("y", 250)>>, "none")
Memo == Pdf("policy.pdf", <<Rep("z", 100)>>, "none")
Invoice == Scan("invoice.PDF", 1, "none")
Manual == Pdf("manual.pdf", <<Rep("m", 1200)>>, "none")
Broken == Pdf("broken.pdf", <<Rep("b", 150)>>, "open")
Unparsed == Pdf("unparsed.pdf", <<Rep("u", 150)>>, "parse")
Smudged == Scan("smudged.pdf", 2, "ocr")
Notes == Pdf("notes.txt", <<Rep("n", 150)>>, "none")

Folder(files) == [exists |-> TRUE, files |-> files]
NoFolder == [exists |-> FALSE, files |-> <<>>]

Tree(hr, finance, technical) ==
    [c \in Categories |->
        CASE c = "HR" -> hr [] c = "Finance" -> finance [] OTHER -> technical]

\* The states of ./documents the session's Re-index button is pressed on
Corpora ==
    { Tree(NoFolder, NoFolder, NoFolder),
      Tree(Folder(<<Policy>>), Folder(<<Broken, Invoice>>), NoFolder),
      Tree(Folder(<<Notes>>), Folder(<<Memo>>), Folder(<<>>)) }

\* process_documents on each of them, computed once
ProcessedCorpora == [tree \in Corpora |-> process_documents(tree)]

\* The files an ingestion-only run places in the folders
Catalogue == {Policy, Invoice, Manual, Broken, Unparsed, Smudged, Notes}

DistinctNames(files) ==
    \A i, j \in 1..Len(files) : files[i].name = files[j].name => i = j

\* The folder of category c when the files q are placed by `into` and the
\* folders in `made` exist although empty
FolderOf(q, into, made, c) ==
    LET idx == {i \in 1..Len(q) : into[i] = c}
        files == SelectSeq([i \in 1..Len(q) |-> IF i \in idx THEN <<q[i]>> ELSE <<>>],
                           LAMBDA x : x # <<>>)
    IN  IF idx # {} THEN Folder([i \in 1..Len(files) |-> files[i][1]])
        ELSE IF c \in made THEN Folder(<<>>) ELSE NoFolder

\* The states of ./documents an ingestion-only run starts from
Trees ==
    LET placed == UNION {{[c \in Categories |-> FolderOf(q, into, made, c)] :
                             into \in [1..Len(q) -> Categories],
                             made \in SUBSET Categories} :
                         q \in SeqsUpTo(Catalogue, MaxFiles)}
    IN  {t \in placed : \A c \in Categories : DistinctNames(t[c].files)}

\* The page texts a PDF handed to load_pdf is made of: around half the scan
\* threshold and around the threshold, bare or wrapped in whitespace
PageTexts ==
    {pad \o Rep("x", n) \o pad : n \in {0, 1, 49, 50, 99, 100}, pad \in {"", " \n"}}

Faults == {"none", "open", "ocr", "parse"}

-----------------------------------------------------------------------------
(* src/app.py: the session *)

Engine == [vector_store |-> vector_store, qa_chain |-> qa_chain,
           persisted |-> persisted]

\* The state after a first start on a machine with no index and no folders
Init ==
    /\ documents = Tree(NoFolder, NoFolder, NoFolder)
    /\ chunked_docs = None
    /\ loaded = None
    /\ vector_store = None
    /\ qa_chain = None
    /\ persisted = None
    /\ memory = <<>>
    /\ messages = <<>>
    /\ response = [op |-> "start", raised |-> FALSE, returned |-> FALSE]
    /\ turn = 0
    /\ cleared = [turn |-> 0, dropped |-> 0]

\* A new browser session: RAGEngine(), load_index(), messages = []
NewSession ==
    \E load_ok \in BOOLEAN :
        LET r == load_index([vector_store |-> None, qa_chain |-> None,
                             persisted |-> persisted], load_ok)
        IN  /\ vector_store' = r.vector_store
            /\ qa_chain' = r.qa_chain
            /\ memory' = <<>>
            /\ messages' = <<>>
            /\ turn' = 0
            /\ cleared' = [turn |-> 0, dropped |-> 0]
            /\ response' = [op |-> "start", raised |-> r.raised,
                            returned |-> r.returned]
            /\ UNCHANGED <<documents, chunked_docs, loaded, persisted>>

\* The Re-index Documents button, pressed while ./documents holds tree
Reindex ==
    \E tree \in Corpora, embed_ok, save_ok \in BOOLEAN :
        LET docs == ProcessedCorpora[tree]
        IN  /\ documents' = MakeDirs(tree)
            /\ chunked_docs' = docs
            /\ IF docs.raised
               THEN /\ response' = [op |-> "reindex", raised |-> TRUE,
                                    built |-> FALSE]
                    /\ UNCHANGED <<vector_store, qa_chain, persisted>>
               ELSE IF docs.value # <<>>
               THEN LET r == build_index(Engine, docs.value, embed_ok, save_ok)
                    IN  /\ vector_store' = r.vector_store
                        /\ qa_chain' = r.qa_chain
                        /\ persisted' = r.persisted
                        /\ response' = [op |-> "reindex", raised |-> r.raised,
                                        built |-> ~r.raised]
               ELSE /\ response' = [op |-> "reindex", raised |-> FALSE,
                                    built |-> FALSE]
                    /\ UNCHANGED <<vector_store, qa_chain, persisted>>
            /\ UNCHANGED <<loaded, memory, messages, turn, cleared>>

\* The Clear Chat button
ClearChat ==
    /\ messages' = <<>>
    /\ memory' = clear_memory(memory)
    /\ cleared' = [turn |-> turn, dropped |-> Len(memory)]
    /\ response' = [op |-> "clear", raised |-> FALSE]
    /\ UNCHANGED <<documents, chunked_docs, loaded, vector_store, qa_chain, persisted, turn>>

\* The chat input: a question typed while the selectbox shows `selected`
Ask ==
    /\ turn < MaxTurns
    /\ \E selected \in {"All"} \cup Categories :
        LET filter_value == IF selected # "All" THEN selected ELSE NoCategory
        IN  \E fate \in QueryFates(Engine, filter_value) :
            LET t == turn + 1
                r == query(Engine, memory, t, filter_value, fate)
                user == [role |-> "user", content |-> Question(t)]
            IN  /\ turn' = t
                /\ qa_chain' = r.qa_chain
                /\ memory' = r.memory
                /\ messages' =
                     IF r.raised THEN Append(messages, user)
                     ELSE Append(Append(messages, user),
                                 [role |-> "assistant", content |-> r.answer,
                                  sources |-> r.sources])
                /\ response' = [op |-> "query", category_filter |-> filter_value,
                                result |-> [k \in DOMAIN r \ {"qa_chain", "memory"} |-> r[k]],
                                raised |-> r.raised]
                /\ UNCHANGED <<documents, chunked_docs, loaded, vector_store, persisted, cleared>>

Next == NewSession \/ Reindex \/ ClearChat \/ Ask

Spec == Init /\ [][Next]_vars

\* Ingestion alone: ./documents is in any of the states Trees
InitIngest ==
    /\ documents \in Trees
    /\ chunked_docs = None
    /\ loaded = None
    /\ vector_store = None
    /\ qa_chain = None
    /\ persisted = None
    /\ memory = <<>>
    /\ messages = <<>>
    /\ response = [op |-> "start", raised |-> FALSE, returned |-> FALSE]
    /\ turn = 0
    /\ cleared = [turn |-> 0, dropped |-> 0]

\* docs = processor.process_documents()
Ingest ==
    /\ documents' = MakeDirs(documents)
    /\ chunked_docs' = process_documents(documents)
    /\ UNCHANGED <<loaded, vector_store, qa_chain, persisted, memory, messages,
                   response, turn, cleared>>

SpecIngest == InitIngest /\ [][Ingest]_vars

\* The PDFs handed to load_pdf on its own
Reports ==
    {[name |-> "report.pdf", layer |-> pages, parsed |-> pages,
      scan |-> [i \in 1..Len(pages) |-> "scanned text"], fault |-> fault] :
        pages \in SeqsUpTo(PageTexts, MaxPages), fault \in Faults}

\* load_pdf alone: one PDF of one category folder, not loaded yet
InitLoadPdf ==
    /\ documents = Tree(NoFolder, NoFolder, NoFolder)
    /\ chunked_docs = None
    /\ loaded \in {[file |-> f, category |-> c, docs |-> None] :
                      f \in Reports, c \in Categories}
    /\ vector_store = None
    /\ qa_chain = None
    /\ persisted = None
    /\ memory = <<>>
    /\ messages = <<>>
    /\ response = [op |-> "start", raised |-> FALSE, returned |-> FALSE]
    /\ turn = 0
    /\ cleared = [turn |-> 0, dropped |-> 0]

\* docs = self.load_pdf(pdf_path, category)
LoadPdf ==
    LET category_path == PathJoin(DocumentsBase, loaded.category)
        pdf_path == PathJoin(category_path, loaded.file.name)
    IN  /\ loaded' = [loaded EXCEPT
                         !.docs = load_pdf(loaded.file, pdf_path, loaded.category)]
        /\ UNCHANGED <<documents, chunked_docs, vector_store, qa_chain,
                       persisted, memory, messages, response, turn, cleared>>

SpecLoadPdf == InitLoadPdf /\ [][LoadPdf]_vars

-----------------------------------------------------------------------------
(* Properties *)

Range(seq) == {seq[i] : i \in DOMAIN seq}

\* The last handler was a query whose chain ran and returned
Answered ==
    response.op = "query" /\ ~response.raised /\ response.result.invoked

\* The filter a query with this category_filter asks for
RequestedFilter(category_filter) ==
    IF category_filter \in Categories THEN [category |-> category_filter] ELSE None

\* C1: in every sequence of queries on a loaded index, the retriever filter
\* in effect for a call is the one that call requested: category equality
\* for a category name, no filter for None or "All".
C1_FilterInEffectIsRequested ==
    Answered
        => response.result.retriever.filter = RequestedFilter(response.category_filter)

\* C2: a query filtered to category c retrieves only chunks of category c
\* and returns only citations of category c.
C2_FilteredSourcesMatch ==
    (Answered /\ response.category_filter \in Categories)
        => /\ \A d \in Range(response.result.source_documents) :
                d.metadata.category = response.category_filter
           /\ \A s \in Range(response.result.sources) :
                s.category = response.category_filter

\* A filtered query returned a citation although the index it searched also
\* holds chunks of another category
C2_Witness ==
    /\ Answered
    /\ response.category_filter \in Categories
    /\ response.result.sources # <<>>
    /\ \E d \in Range(response.result.retriever.store.docs) :
          d.metadata.category # response.category_filter

\* C3: with no index loaded, query returns the fixed answer with no
\* sources, raises nothing, runs neither retriever nor model, and leaves
\* memory, vector store and retriever configuration as they were.
C3_NoIndexFixedAnswer ==
    [][(turn' = turn + 1 /\ qa_chain = None)
          => /\ response'.result = [raised |-> FALSE, invoked |-> FALSE,
                                    answer |-> NOT_INDEXED, sources |-> <<>>]
             /\ UNCHANGED <<memory, vector_store, qa_chain, persisted>>]_vars

\* A question was asked with no index loaded, before and after a build
\* that failed while saving
C3_Witness ==
    /\ response.op = "query"
    /\ ~response.raised
    /\ response.result.answer = NOT_INDEXED
    /\ qa_chain = None
    /\ vector_store # None

\* C4: a re-index that returns replaces the index: memory, disk and the
\* chain's retriever hold exactly the new chunks, and a later load_index
\* brings back exactly what is on disk.
C4_ReindexReplaces ==
    /\ (response.op = "reindex" /\ response.built)
          => /\ vector_store = [docs |-> chunked_docs.value]
             /\ persisted = [docs |-> chunked_docs.value]
             /\ qa_chain # None
             /\ qa_chain.retriever = [store |-> [docs |-> chunked_docs.value],
                                      filter |-> None]
    /\ (response.op = "start" /\ response.returned)
          => /\ vector_store = persisted
             /\ qa_chain # None
             /\ qa_chain.retriever = [store |-> persisted, filter |-> None]

\* A re-index succeeded over an index that held a file the new one lacks:
\* an earlier answer of the transcript cites it
C4_Witness ==
    /\ response.op = "reindex"
    /\ response.built
    /\ \E m \in Range(messages) :
          /\ m.role = "assistant"
          /\ \E s \in Range(m.sources) :
                \A d \in Range(vector_store.docs) : d.metadata.filename # s.filename

\* Position of the first retrieved document with this filename
FirstWith(docs, filename) ==
    CHOOSE i \in DOMAIN docs :
        /\ docs[i].metadata.filename = filename
        /\ \A j \in 1..(i - 1) : docs[j].metadata.filename # filename

\* C5: the citation list holds each retrieved filename exactly once, in
\* order of first appearance, with the category and the content preview
\* of the first retrieved chunk of that file.
C5_CitationsDeduplicated ==
    Answered =>
        LET docs == response.result.source_documents
            sources == response.result.sources
        IN  /\ {s.filename : s \in Range(sources)}
                  = {d.metadata.filename : d \in Range(docs)}
            /\ \A i, j \in DOMAIN sources :
                  i < j => FirstWith(docs, sources[i].filename)
                              < FirstWith(docs, sources[j].filename)
            /\ \A i \in DOMAIN sources :
                  LET first == docs[FirstWith(docs, sources[i].filename)]
                      n == IF Len(first.page_content) < PreviewLen
                           THEN Len(first.page_content) ELSE PreviewLen
                  IN  /\ sources[i].category = first.metadata.category
                      /\ Len(sources[i].content_preview) = n + 3
                      /\ SubSeq(sources[i].content_preview, 1, n)
                            = SubSeq(first.page_content, 1, n)
                      /\ SubSeq(sources[i].content_preview, n + 1, n + 3) = "..."

\* Retrieval returned two different chunks of one file, the longer one
\* first, and a chunk of another file
C5_Witness ==
    /\ Answered
    /\ LET docs == response.result.source_documents
       IN  /\ Len(response.result.sources) < Len(docs)
           /\ \E i, j \in DOMAIN docs :
                 /\ i < j
                 /\ docs[i].metadata.filename = docs[j].metadata.filename
                 /\ Len(docs[i].page_content) > PreviewLen
                 /\ docs[i].page_content # docs[j].page_content
           /\ \E i, j \in DOMAIN docs :
                 docs[i].metadata.filename # docs[j].metadata.filename

\* C6: a query or a re-index that raises leaves conversational memory and
\* the loaded index (the vector store and the chain's retriever) as they
\* were before it.
C6_FailedTurnChangesNothing ==
    [][(response'.op \in {"query", "reindex"} /\ response'.raised)
          => UNCHANGED <<memory, vector_store, qa_chain>>]_vars

\* The texts of the questions and answers of turns lo..hi
TextsOfTurns(lo, hi) ==
    {Question(t) : t \in lo..hi} \cup {Answer(t) : t \in lo..hi}

\* C7: after Clear Chat the history is empty; nothing asked or answered
\* before the clear is in the memory, in the displayed messages, or in the
\* chat history given to a later query, and the first query after the
\* clear gets an empty chat history.
C7_ClearedTurnsGone ==
    /\ \A m \in Range(memory) : m.content \in TextsOfTurns(cleared.turn + 1, turn)
    /\ \A m \in Range(messages) :
          m.content \in TextsOfTurns(cleared.turn + 1, turn) \cup {NOT_INDEXED}
    /\ response.op = "clear" => (memory = <<>> /\ messages = <<>>)
    /\ Answered =>
          \A m \in Range(response.result.chat_history) :
              m.content \in TextsOfTurns(cleared.turn + 1, turn - 1)

\* The first question after a Clear Chat that dropped remembered turns was
\* answered
C7_Witness ==
    /\ Answered
    /\ cleared.dropped > 0
    /\ turn = cleared.turn + 1
    /\ response.result.chat_history = <<>>
    /\ memory # <<>>

\* Length of a PDF's trimmed text over all pages
TrimmedLength(f) == Len(Strip(Concat(f.layer)))

IsPdfName(name) ==
    Len(name) >= 4 /\ SubSeq(name, Len(name) - 3, Len(name)) \in {".pdf", ".PDF"}

\* Classifying, OCR-ing or parsing this file raises
FailsToLoad(f) ==
    \/ f.fault = "open"
    \/ f.fault = "ocr" /\ TrimmedLength(f) < ScanThreshold
    \/ f.fault = "parse" /\ TrimmedLength(f) >= ScanThreshold

\* C8: process_documents does not raise whatever fails inside load_pdf;
\* its chunks come from exactly the PDFs that loaded without error, and
\* each carries its folder's category, its filename and its extraction
\* method.
C8_BadFilesSkipped ==
    chunked_docs # None =>
        /\ ~chunked_docs.raised
        /\ \A d \in Range(chunked_docs.value) :
              /\ {"category", "filename", "extraction_method"} \subseteq DOMAIN d.metadata
              /\ d.metadata.category \in Categories
              /\ \E f \in Range(documents[d.metadata.category].files) :
                    /\ f.name = d.metadata.filename
                    /\ IsPdfName(f.name)
                    /\ ~FailsToLoad(f)
                    /\ d.metadata.extraction_method
                          = (IF TrimmedLength(f) < ScanThreshold THEN "OCR" ELSE "text")
        /\ \A c \in Categories : \A f \in Range(documents[c].files) :
              (IsPdfName(f.name) /\ ~FailsToLoad(f))
                  => \E d \in Range(chunked_docs.value) :
                        d.metadata.category = c /\ d.metadata.filename = f.name

\* A folder held a PDF that fails to load in front of one that loads, and
\* the chunks of the second are in the output
C8_Witness ==
    /\ chunked_docs # None
    /\ ~chunked_docs.raised
    /\ \E c \in Categories : \E i, j \in DOMAIN documents[c].files :
          /\ i < j
          /\ IsPdfName(documents[c].files[i].name)
          /\ FailsToLoad(documents[c].files[i])
          /\ \E d \in Range(chunked_docs.value) :
                /\ d.metadata.category = c
                /\ d.metadata.filename = documents[c].files[j].name

\* C9: a PDF whose trimmed text is shorter than 100 characters takes the
\* OCR path (one document, "OCR"); one with 100 characters or more takes
\* the text path (one document per page, "text").
C9_ScanThreshold ==
    (loaded # None /\ loaded.docs # None /\ loaded.file.fault = "none") =>
        LET docs == loaded.docs.value
        IN  IF TrimmedLength(loaded.file) < 100
            THEN /\ Len(docs) = 1
                 /\ docs[1].metadata.extraction_method = "OCR"
            ELSE /\ Len(docs) = Len(loaded.file.parsed)
                 /\ \A d \in Range(docs) : d.metadata.extraction_method = "text"

\* A PDF whose text is exactly 100 characters once its surrounding
\* whitespace is trimmed was loaded by the text path
C9_Witness ==
    /\ loaded # None
    /\ loaded.docs # None
    /\ loaded.file.fault = "none"
    /\ TrimmedLength(loaded.file) = 100
    /\ Len(Concat(loaded.file.layer)) > 100
    /\ Len(loaded.docs.value) = 2
    /\ loaded.docs.value[1].metadata.extraction_method = "text"

\* C10: qa_chain is set iff vector_store is set, and the chain's retriever
\* searches the store held in self.vector_store.
C10_ChainOverCurrentStore ==
    /\ (qa_chain = None) <=> (vector_store = None)
    /\ qa_chain # None => qa_chain.retriever.store = vector_store

=============================================================================
